---- MODULE Spec2Model ----
(***************************************************************************)
(* Ultrasonic proximity-hazard detector (baseline-relative sketch,         *)
(* src/Hardware/Code/jsn air/1/1.ino).                                     *)
(*                                                                         *)
(* One step of the model is one pass of loop(): readEchoMedian, distance   *)
(* conversion and clamp, the 2-strike EMA filter, baseline learning, the   *)
(* confirmation-window danger state machine, the danger scalar and the     *)
(* printed telemetry line.                                                 *)
(*                                                                         *)
(* Number representation.  The sketch computes in float; the model uses    *)
(* fixed point:                                                            *)
(*   - distances are integers in units of 0.001 cm, so that                *)
(*     echo_us * 0.148 / 2 = echo_us * 74 is exact;                        *)
(*   - DIST_EMA_A and DROP_REJECT_FRAC are kept in percent; the EMA is     *)
(*     rounded down to the unit, the reject comparison is exact;           *)
(*   - the danger scalar is kept in units of 1/DANGER_ONE, where           *)
(*     DANGER_ONE = far - thr_enter = HYST_CM + SLOPE_CM, so that          *)
(*     1 - (dist_f - thr_enter)/(far - thr_enter) is exact;                *)
(*   - Serial.print(x, d) is modelled by its rounding to d decimals.       *)
(***************************************************************************)
EXTENDS Integers, Sequences, FiniteSets, TLC

(***************************************************************************)
(* Program constants (1.ino lines 13-54, 238)                              *)
(***************************************************************************)
ECHO_MIN_US == 250
ECHO_MAX_US == 30000
NPINGS == 7
\* 0.148 cm/us in units of 0.001 cm per us
CM_PER_US_ONEWAY == 148
MIN_DIST_CM == 20000
MAX_DIST_CM == 600000
\* 0.25, in percent
DIST_EMA_A == 25
BASELINE_SAMPLES == 25
MARGIN_CM == 60000
HYST_CM == 20000
CONF_N == 3
ENTER_K == 2
EXIT_K == 2
\* 0.30, in percent
DROP_REJECT_FRAC == 30
\* the literal 120.0f of "far = thr_exit + 120.0f"
SLOPE_CM == 120000
\* the fixed-point value of the float 1.0f of the danger scalar
DANGER_ONE == HYST_CM + SLOPE_CM

(***************************************************************************)
(* Constants of the pool-stable sketch (motor.ino lines 58-87, 212) that   *)
(* differ from 1.ino; the others have the same names and values            *)
(***************************************************************************)
SAFE_DIST_CM == 120000
\* DROP_REJECT_FRAC = 0.40 of motor.ino, in percent
POOL_DROP_REJECT_FRAC == 40
CAL_SAMPLES == 30
\* the literal 100.0f of "far = SAFE_DIST_CM + 100.0f"
POOL_SLOPE_CM == 100000

(***************************************************************************)
(* Constants of the air sketch (sketch_feb13a.ino lines 10-34).  Distances *)
(* in 0.001 cm, OUT_ALPHA in percent, danger in units of 1/AIR_ONE.        *)
(***************************************************************************)
ECHO_MIN_US_AIR == 80
ECHO_MAX_US_AIR == 40000
DIST_MIN_CM_AIR == 2000
DIST_MAX_CM_AIR == 800000
MARGIN_WARN_CM == 30000
MARGIN_STOP_CM == 60000
\* 0.35, in percent
OUT_ALPHA == 35
STUCK_EPS_US == 5
STUCK_LIMIT == 12
\* the fixed-point value of the float 1.0f of danger
AIR_ONE == 10000

(***************************************************************************)
(* Bounds of the environment                                               *)
(***************************************************************************)
\* how many times the scene (the echo level the transducer sees) changes
MaxChanges == 2
\* valid cycles explored after the baseline has been learned
MaxPost == 4
\* echo durations explored on each side of the two clamp points of the
\* Distance Converter
ConvMargin == 50

\* valid cycles explored in the pool-stable sketch
MaxPoolCycles == 32

\* how many times the air scene changes
MaxAirChanges == 1
\* cycles with a valid measurement explored in the air sketch after its
\* baseline has been learned
MaxAirPost == 3
\* consecutive identical out-of-range echoes explored in the air sketch
MaxAirRepeat == 1
\* echo levels of the air scene: full danger (17.15 cm), on the ramp
\* (42.875 cm), open space (85.75 cm)
AirEchoLevel == <<1000, 2500, 5000>>
AirEchoLevels == {AirEchoLevel[1], AirEchoLevel[2], AirEchoLevel[3]}
\* echoes without a valid measurement: timeout, inside the echo window but
\* nearer than DIST_MIN_CM_AIR, beyond the echo window
AirEchoInvalid == {0, ECHO_MIN_US_AIR + 20, ECHO_MAX_US_AIR + 10000}

\* echo levels of the scene: near wall (clamps to MIN_DIST_CM), open water
\* (99.9 cm), far reflection (clamps to MAX_DIST_CM)
EchoLevel == <<260, 1350, 9000>>
EchoNear == EchoLevel[1]
EchoOpen == EchoLevel[2]
EchoFar == EchoLevel[3]
EchoLevels == {EchoNear, EchoOpen, EchoFar}

VARIABLES
    \* ---- persistent state of the sketch (1.ino lines 57-73) ----
    dist_init, dist_f_cm,
    baseline_ready, baseline_cm, base_n, base_buf,
    in_danger,
    hist, hist_i, hist_count,
    drop_strikes,
    \* ---- locals of the last pass of loop() (lines 156-165) ----
    echo_us, valid, dist_cm, danger, event,
    \* ---- serial output: the last telemetry line, and the number of
    \* "BASELINE learned" notices printed so far ----
    line, notices,
    \* ---- environment: current echo level, scene changes so far, valid
    \* cycles so far ----
    scene, changes, nvalid,
    \* ---- history: what the last CONF_N valid passes of loop() read and
    \* did, oldest first ----
    trail,
    \* ---- which sketch runs, and the sub-samples of one sampler call ----
    sketch, subsamples,
    \* ---- pool-stable sketch (motor.ino lines 87-89) ----
    cal_n, safe_ref_cm,
    \* ---- air sketch (sketch_feb13a.ino lines 17-32, 93-98) ----
    dist_buf, buf_n, D_base, danger_smoothed, last_echo, same_count,
    meas_valid, stuck

state == <<dist_init, dist_f_cm, baseline_ready, baseline_cm, base_n, base_buf,
           in_danger, hist, hist_i, hist_count, drop_strikes>>
locals == <<echo_us, valid, dist_cm, danger, event>>
env == <<scene, changes, nvalid>>
pool == <<cal_n, safe_ref_cm>>
air == <<dist_buf, buf_n, D_base, danger_smoothed, last_echo, same_count,
         meas_valid, stuck>>
others == <<sketch, subsamples, pool, air>>
vars == <<state, locals, line, notices, env, trail, others>>

(***************************************************************************)
(* Helpers (lines 76-139).  C arrays are 0-based: a[i] is a[i + 1] here.   *)
(***************************************************************************)
\* mutant: the reading is not clamped to the sensor range
clampfMutNone(x, lo, hi) == x

\* mutant: the conversion is clamped from below only
clampfMutLoOnly(x, lo, hi) == IF x < lo THEN lo ELSE x

clampf(x, lo, hi) == IF x < lo THEN lo ELSE IF x > hi THEN hi ELSE x

\* The exchange sort shared by sortArrayFloat and sortArrayLong.
\* Inner loop "for (j = ...; j < n; j++) if (a[j] < a[i]) swap" from j on:
RECURSIVE SortInner(_, _, _, _)
SortInner(a, n, i, j) ==
    IF j >= n THEN a
    ELSE LET b == IF a[j + 1] < a[i + 1]
                  THEN [a EXCEPT ![i + 1] = a[j + 1], ![j + 1] = a[i + 1]]
                  ELSE a
         IN  SortInner(b, n, i, j + 1)

\* Outer loop "for (i = ...; i < n - 1; i++)" from i on:
RECURSIVE SortOuter(_, _, _)
SortOuter(a, n, i) ==
    IF i >= n - 1 \/ Len(a) < n THEN a
    ELSE SortOuter(SortInner(a, n, i, i + 1), n, i + 1)

sortArrayFloat(a, n) == SortOuter(a, n, 0)

sortArrayLong(a, n) == SortOuter(a, n, 0)

\* mutant: the validity window excludes its end points
InWindowMutStrict(e) == e > ECHO_MIN_US /\ e < ECHO_MAX_US

\* readEchoMedian over the NPINGS raw results of readEchoOnce (pulseIn)
InWindow(e) == e >= ECHO_MIN_US /\ e <= ECHO_MAX_US

\* mutant: the validated sub-samples are not sorted before the pick
readEchoMedianMutNoSort(pings) ==
    LET vals == SelectSeq(SubSeq(pings, 1, NPINGS), InWindow)
        k    == Len(vals)
    IN  IF k = 0 THEN 0 ELSE vals[(k \div 2) + 1]

readEchoMedian(pings) ==
    LET vals == SelectSeq(SubSeq(pings, 1, NPINGS), InWindow)
        k    == Len(vals)
    IN  IF k = 0 THEN 0 ELSE sortArrayLong(vals, k)[(k \div 2) + 1]

echoToDistCm(e) == (e * CM_PER_US_ONEWAY) \div 2

\* mutant: the write index of the ring does not advance
pushHistMutNoAdvance(h, x) ==
    [hist       |-> [h.hist EXCEPT ![h.hist_i + 1] = x],
     hist_i     |-> h.hist_i,
     hist_count |-> IF h.hist_count < CONF_N THEN h.hist_count + 1 ELSE h.hist_count]

pushHist(h, x) ==
    [hist       |-> [h.hist EXCEPT ![h.hist_i + 1] = x],
     hist_i     |-> (h.hist_i + 1) % CONF_N,
     hist_count |-> IF h.hist_count < CONF_N THEN h.hist_count + 1 ELSE h.hist_count]

RECURSIVE CountBelowFrom(_, _, _, _)
\* the loop of countBelow from index i on
CountBelowFrom(h, n, thr, i) ==
    IF i >= n THEN 0
    ELSE (IF h[i + 1] <= thr THEN 1 ELSE 0) + CountBelowFrom(h, n, thr, i + 1)

countBelow(h, n, thr) == CountBelowFrom(h, n, thr, 0)

RECURSIVE CountAboveFrom(_, _, _, _)
\* the loop of countAbove from index i on
CountAboveFrom(h, n, thr, i) ==
    IF i >= n THEN 0
    ELSE (IF h[i + 1] >= thr THEN 1 ELSE 0) + CountAboveFrom(h, n, thr, i + 1)

countAbove(h, n, thr) == CountAboveFrom(h, n, thr, 0)

\* mutant: the copy is not sorted before the middle element is taken
medianOfBufferMutUnsorted(buf, n) == buf[(n \div 2) + 1]

medianOfBuffer(buf, n) == sortArrayFloat(buf, n)[(n \div 2) + 1]

(***************************************************************************)
(* The stages of loop() on a valid echo (lines 167-248)                    *)
(***************************************************************************)
\* DIST_EMA_A * dist_cm + (1 - DIST_EMA_A) * dist_f_cm
EmaUpdate(d, f) == (DIST_EMA_A * d + (100 - DIST_EMA_A) * f) \div 100

\* dist_cm < reject_limit, reject_limit = dist_f_cm * (1 - DROP_REJECT_FRAC)
SuspiciousDrop(d, f) == 100 * d < (100 - DROP_REJECT_FRAC) * f

\* mutant: a suspicious drop is accepted on its first strike
FilterStepMutOneStrike(init, f, strikes, d) ==
    IF ~init
    THEN [dist_f_cm |-> d, drop_strikes |-> 0]
    ELSE IF SuspiciousDrop(d, f)
         THEN [dist_f_cm |-> EmaUpdate(d, f),
               drop_strikes |-> IF strikes + 1 >= 2 THEN 2 ELSE strikes + 1]
         ELSE [dist_f_cm |-> EmaUpdate(d, f), drop_strikes |-> 0]

\* mutant: single-sample rejection, a suspicious drop is never accepted
FilterStepMutFreeze(init, f, strikes, d) ==
    IF ~init
    THEN [dist_f_cm |-> d, drop_strikes |-> 0]
    ELSE IF SuspiciousDrop(d, f)
         THEN [dist_f_cm |-> f, drop_strikes |-> 1]
         ELSE [dist_f_cm |-> EmaUpdate(d, f), drop_strikes |-> 0]

\* Filtering with 2-strike drop handling (lines 171-193)
FilterStep(init, f, strikes, d) ==
    IF ~init
    THEN [dist_f_cm |-> d, drop_strikes |-> 0]
    ELSE IF SuspiciousDrop(d, f)
         THEN IF strikes + 1 >= 2
              THEN [dist_f_cm |-> EmaUpdate(d, f), drop_strikes |-> 2]
              ELSE [dist_f_cm |-> f, drop_strikes |-> strikes + 1]
         ELSE [dist_f_cm |-> EmaUpdate(d, f), drop_strikes |-> 0]

\* mutant: the learning phase does not stop when the buffer is full
BaselineStepMutOverrun(ready, cm, n, buf, f) ==
    LET buf1 == [buf EXCEPT ![n + 1] = f]
        n1   == n + 1
    IN  IF n1 = BASELINE_SAMPLES
        THEN [ready |-> TRUE, cm |-> medianOfBuffer(buf1, BASELINE_SAMPLES),
              n |-> n1, buf |-> buf1, learned |-> TRUE]
        ELSE [ready |-> ready, cm |-> cm, n |-> n1, buf |-> buf1,
              learned |-> FALSE]

\* Baseline learning (lines 196-213); learned is TRUE on the pass that
\* completes the calibration
BaselineStep(ready, cm, n, buf, f) ==
    IF ready
    THEN [ready |-> ready, cm |-> cm, n |-> n, buf |-> buf, learned |-> FALSE]
    ELSE LET buf1 == [buf EXCEPT ![n + 1] = f]
             n1   == n + 1
         IN  IF n1 >= BASELINE_SAMPLES
             THEN [ready |-> TRUE, cm |-> medianOfBuffer(buf1, BASELINE_SAMPLES),
                   n |-> n1, buf |-> buf1, learned |-> TRUE]
             ELSE [ready |-> FALSE, cm |-> cm, n |-> n1, buf |-> buf1,
                   learned |-> FALSE]

\* mutant: the entry threshold is the baseline itself, without the margin
ThrEnterMutNoMargin(base) == base

ThrEnter(base) == base - MARGIN_CM

ThrExit(base) == ThrEnter(base) + HYST_CM

\* danger scalar (lines 237-244), in units of 1/(far - thr_enter), which is
\* 1/DANGER_ONE: 1 - (f - thr_enter)/(far - thr_enter) has the numerator
\* (far - thr_enter) - (f - thr_enter)
DangerScalar(dang, f, thr_enter, thr_exit) ==
    IF dang
    THEN LET far == thr_exit + SLOPE_CM
         IN  IF f <= thr_enter THEN DANGER_ONE
             ELSE IF f >= far THEN 0
             ELSE (far - thr_enter) - (f - thr_enter)
    ELSE 0

\* mutant: the transition does not wait for a full ring
TransitionMutNoFull(dang, h, thr_enter, thr_exit) ==
    IF ~dang
    THEN IF countBelow(h.hist, h.hist_count, thr_enter) >= ENTER_K
         THEN [in_danger |-> TRUE, event |-> 1]
         ELSE [in_danger |-> dang, event |-> 0]
    ELSE IF countAbove(h.hist, h.hist_count, thr_exit) >= EXIT_K
         THEN [in_danger |-> FALSE, event |-> -1]
         ELSE [in_danger |-> dang, event |-> 0]

\* mutant: the event reports the level of the state, not its edge
TransitionMutLevel(dang, h, thr_enter, thr_exit) ==
    IF ~dang
    THEN IF h.hist_count = CONF_N /\ countBelow(h.hist, h.hist_count, thr_enter) >= ENTER_K
         THEN [in_danger |-> TRUE, event |-> 1]
         ELSE [in_danger |-> dang, event |-> 0]
    ELSE IF h.hist_count = CONF_N /\ countAbove(h.hist, h.hist_count, thr_exit) >= EXIT_K
         THEN [in_danger |-> FALSE, event |-> -1]
         ELSE [in_danger |-> dang, event |-> 1]

\* mutant: a transition needs all CONF_N entries of the ring to confirm
TransitionMutAllK(dang, h, thr_enter, thr_exit) ==
    IF ~dang
    THEN IF h.hist_count = CONF_N /\ countBelow(h.hist, h.hist_count, thr_enter) >= CONF_N
         THEN [in_danger |-> TRUE, event |-> 1]
         ELSE [in_danger |-> dang, event |-> 0]
    ELSE IF h.hist_count = CONF_N /\ countAbove(h.hist, h.hist_count, thr_exit) >= CONF_N
         THEN [in_danger |-> FALSE, event |-> -1]
         ELSE [in_danger |-> dang, event |-> 0]

\* mutant: the classifier never confirms an entry
TransitionMutNoEntry(dang, h, thr_enter, thr_exit) ==
    IF ~dang
    THEN IF h.hist_count = CONF_N /\ countBelow(h.hist, h.hist_count, thr_enter) > CONF_N
         THEN [in_danger |-> TRUE, event |-> 1]
         ELSE [in_danger |-> dang, event |-> 0]
    ELSE IF h.hist_count = CONF_N /\ countAbove(h.hist, h.hist_count, thr_exit) >= EXIT_K
         THEN [in_danger |-> FALSE, event |-> -1]
         ELSE [in_danger |-> dang, event |-> 0]

\* mutant: the exit is confirmed against enter, without the hysteresis
TransitionMutNoHyst(dang, h, thr_enter, thr_exit) ==
    IF ~dang
    THEN IF h.hist_count = CONF_N /\ countBelow(h.hist, h.hist_count, thr_enter) >= ENTER_K
         THEN [in_danger |-> TRUE, event |-> 1]
         ELSE [in_danger |-> dang, event |-> 0]
    ELSE IF h.hist_count = CONF_N /\ countAbove(h.hist, h.hist_count, thr_enter) >= EXIT_K
         THEN [in_danger |-> FALSE, event |-> -1]
         ELSE [in_danger |-> dang, event |-> 0]

\* Confirmation-based transition (lines 223-233) on the ring after the push
Transition(dang, h, thr_enter, thr_exit) ==
    IF ~dang
    THEN IF h.hist_count = CONF_N /\ countBelow(h.hist, h.hist_count, thr_enter) >= ENTER_K
         THEN [in_danger |-> TRUE, event |-> 1]
         ELSE [in_danger |-> dang, event |-> 0]
    ELSE IF h.hist_count = CONF_N /\ countAbove(h.hist, h.hist_count, thr_exit) >= EXIT_K
         THEN [in_danger |-> FALSE, event |-> -1]
         ELSE [in_danger |-> dang, event |-> 0]

\* Danger detection (lines 216-248)
DangerStep(ready, base, h, dang, f) ==
    IF ready
    THEN LET thr_enter == ThrEnter(base)
             thr_exit  == ThrExit(base)
             h1        == pushHist(h, f)
             tr        == Transition(dang, h1, thr_enter, thr_exit)
         IN  [h |-> h1, in_danger |-> tr.in_danger, event |-> tr.event,
              danger |-> DangerScalar(tr.in_danger, f, thr_enter, thr_exit)]
    ELSE [h |-> h, in_danger |-> dang, event |-> 0, danger |-> 0]

(***************************************************************************)
(* Telemetry line (lines 256-273).  Serial.print(x, d) rounds to d         *)
(* decimals: distances are printed in tenths of a cm, the danger scalar in *)
(* thousandths.                                                            *)
(***************************************************************************)
PrintDist(x) == IF x < 0 THEN 0 - ((50 - x) \div 100) ELSE (x + 50) \div 100

PrintDanger(x) == (x * 1000 + DANGER_ONE \div 2) \div DANGER_ONE

\* mutant: the baseline and threshold fields are printed before the baseline
\* is ready
PrintLineMutAlways(e, v, d, f, ready, base, dg, ev) ==
    [echo_us     |-> e,
     valid       |-> IF v THEN 1 ELSE 0,
     dist_cm     |-> IF v THEN PrintDist(d) ELSE 0,
     dist_f_cm   |-> PrintDist(f),
     baseline_cm |-> PrintDist(base),
     thr_enter   |-> PrintDist(ThrEnter(base)),
     thr_exit    |-> PrintDist(ThrExit(base)),
     danger      |-> PrintDanger(dg),
     event       |-> ev]

PrintLine(e, v, d, f, ready, base, dg, ev) ==
    [echo_us     |-> e,
     valid       |-> IF v THEN 1 ELSE 0,
     dist_cm     |-> IF v THEN PrintDist(d) ELSE 0,
     dist_f_cm   |-> PrintDist(f),
     baseline_cm |-> IF ready THEN PrintDist(base) ELSE 0,
     thr_enter   |-> IF ready THEN PrintDist(ThrEnter(base)) ELSE 0,
     thr_exit    |-> IF ready THEN PrintDist(ThrExit(base)) ELSE 0,
     danger      |-> PrintDanger(dg),
     event       |-> ev]

(***************************************************************************)
(* Environment: what pulseIn returns on the NPINGS pings of one pass, for  *)
(* a scene whose true echo is lv.  0 is a timeout; values outside          *)
(* [ECHO_MIN_US, ECHO_MAX_US] are multipath or ringing.                    *)
(***************************************************************************)
PingPatterns(lv) ==
    { <<lv, lv, lv, lv, lv, lv, lv>>,
      <<lv + 8, lv - 8, lv, 0, 29000, lv, 251>>,
      <<0, 0, 0, 0, 0, 0, 0>>,
      <<0, 100, 40000, 0, 249, 30001, 59000>> }

(***************************************************************************)
(* Init: the globals as initialised at lines 57-73 (arrays are zero-filled *)
(* globals); nothing printed yet; the sensor points into open water, as    *)
(* setup() asks for the calibration.                                       *)
(***************************************************************************)
\* the variables of the other sketches and of the sampler harness, unused
\* while this sketch runs
PoolIdle == cal_n = 0 /\ safe_ref_cm = 0

AirIdle ==
    /\ dist_buf = [i \in 1..BASELINE_SAMPLES |-> 0]
    /\ buf_n = 0
    /\ D_base = 0
    /\ danger_smoothed = 0
    /\ last_echo = -1
    /\ same_count = 0
    /\ meas_valid = FALSE
    /\ stuck = FALSE

OthersIdle == subsamples = <<>> /\ PoolIdle /\ AirIdle

\* trail after one more valid pass
TrailPush(t, r) == IF Len(t) < CONF_N THEN Append(t, r) ELSE Append(Tail(t), r)

\* what a valid pass read and did: the clamped reading d, the filtered
\* distance before (f0) and after (f), the state it started from and its event
TrailRecord ==
    [d |-> dist_cm', f0 |-> dist_f_cm, f |-> dist_f_cm', init0 |-> dist_init,
     ready0 |-> baseline_ready, dang0 |-> in_danger, ev |-> event']

Init ==
    /\ dist_init = FALSE
    /\ dist_f_cm = 0
    /\ baseline_ready = FALSE
    /\ baseline_cm = 0
    /\ base_n = 0
    /\ base_buf = [i \in 1..BASELINE_SAMPLES |-> 0]
    /\ in_danger = FALSE
    /\ hist = [i \in 1..CONF_N |-> 0]
    /\ hist_i = 0
    /\ hist_count = 0
    /\ drop_strikes = 0
    /\ echo_us = 0
    /\ valid = FALSE
    /\ dist_cm = 0
    /\ danger = 0
    /\ event = 0
    /\ line = PrintLine(0, FALSE, 0, 0, FALSE, 0, 0, 0)
    /\ notices = 0
    /\ scene = EchoOpen
    /\ changes = 0
    /\ nvalid = 0
    /\ trail = <<>>
    /\ sketch = "1.ino"
    /\ OthersIdle

(***************************************************************************)
(* loop(), lines 153-276                                                   *)
(***************************************************************************)
\* lines 195-248 of the "if (valid)" branch: what follows the filter, for the
\* clamped reading d and the filter's result flt
AfterFilter(d, flt) ==
    \E bl \in {BaselineStep(baseline_ready, baseline_cm, base_n, base_buf,
                            flt.dist_f_cm)} :
    \* "reset danger state cleanly after calibration", lines 207-211
    \E h0 \in {IF bl.learned
               THEN [hist |-> hist, hist_i |-> 0, hist_count |-> 0]
               ELSE [hist |-> hist, hist_i |-> hist_i, hist_count |-> hist_count]} :
    \E ds \in {DangerStep(bl.ready, bl.cm, h0,
                          IF bl.learned THEN FALSE ELSE in_danger,
                          flt.dist_f_cm)} :
       /\ dist_cm' = d
       /\ dist_init' = TRUE
       /\ dist_f_cm' = flt.dist_f_cm
       /\ drop_strikes' = IF bl.learned THEN 0 ELSE flt.drop_strikes
       /\ baseline_ready' = bl.ready
       /\ baseline_cm' = bl.cm
       /\ base_n' = bl.n
       /\ base_buf' = bl.buf
       /\ notices' = IF bl.learned THEN notices + 1 ELSE notices
       /\ hist' = ds.h.hist
       /\ hist_i' = ds.h.hist_i
       /\ hist_count' = ds.h.hist_count
       /\ in_danger' = ds.in_danger
       /\ event' = ds.event
       /\ danger' = ds.danger

\* the "if (valid)" branch, lines 167-249
ValidCycle(e) ==
    LET d == clampf(echoToDistCm(e), MIN_DIST_CM, MAX_DIST_CM)
    IN  \E flt \in {FilterStep(dist_init, dist_f_cm, drop_strikes, d)} :
           AfterFilter(d, flt)

\* mutant: a missing echo clears the strike counter
InvalidCycleMutResetStrikes ==
    /\ dist_cm' = 0
    /\ danger' = 0
    /\ event' = 0
    /\ drop_strikes' = 0
    /\ UNCHANGED <<dist_init, dist_f_cm, baseline_ready, baseline_cm, base_n, base_buf,
                   in_danger, hist, hist_i, hist_count, notices>>

\* the "else" branch, lines 250-253: nothing is assigned; the locals keep
\* their initial values of lines 159-161
InvalidCycle ==
    /\ dist_cm' = 0
    /\ danger' = 0
    /\ event' = 0
    /\ UNCHANGED <<state, notices>>

\* one pass of loop() whose readEchoMedian returns e
Pass(e) ==
    /\ echo_us' = e
    /\ valid' = (e # 0)
    /\ IF e # 0 THEN ValidCycle(e) ELSE InvalidCycle
    /\ line' = PrintLine(echo_us', valid', dist_cm', dist_f_cm', baseline_ready',
                         baseline_cm', danger', event')
    /\ nvalid' = IF e # 0 THEN nvalid + 1 ELSE nvalid
    /\ trail' = IF e # 0 THEN TrailPush(trail, TrailRecord) ELSE trail
    /\ e # 0 => nvalid < BASELINE_SAMPLES + MaxPost
    /\ UNCHANGED others

\* the scene stays as it is
LoopSteady ==
    /\ \E pings \in PingPatterns(scene) : Pass(readEchoMedian(pings))
    /\ UNCHANGED <<scene, changes>>

\* the scene changes (an obstacle appears or recedes) and is seen on this pass
LoopChange ==
    /\ changes < MaxChanges
    /\ \E lv \in EchoLevels \ {scene} :
          /\ \E pings \in PingPatterns(lv) :
                \E e \in {readEchoMedian(pings)} : e # 0 /\ Pass(e)
          /\ scene' = lv
    /\ changes' = changes + 1

Next == LoopSteady \/ LoopChange

Spec == Init /\ [][Next]_vars

(***************************************************************************)
(* The end-to-end scenario: the classifier after calibration, in SAFE,     *)
(* with the baseline at 100 cm, is fed a script of filtered distances, one *)
(* per valid cycle (lines 195-248 with dist_f_cm given).  nvalid counts    *)
(* the cycles of the script that have run.                                 *)
(***************************************************************************)
ScenarioDist == <<35000, 38000, 36000, 65000, 70000, 75000>>

\* filtered distances the ring may hold from the cycles before the script
ScenarioPast == {30000, 50000, 100000}

\* the rings pushHist (lines 116-120) leaves after c pushes since the reset of
\* lines 209-210: while the ring is not full the slots not yet written are 0
\* and hist_i = hist_count
ScenarioRings ==
    { h \in [hist : [1..CONF_N -> ScenarioPast \cup {0}],
             hist_i : 0..(CONF_N - 1), hist_count : 1..CONF_N] :
         /\ \A i \in 1..CONF_N : (h.hist[i] = 0) <=> (i > h.hist_count)
         /\ h.hist_count < CONF_N => h.hist_i = h.hist_count
         \* SAFE after the last push: lines 223-227 did not enter
         /\ ~(h.hist_count = CONF_N /\
              countBelow(h.hist, h.hist_count, ThrEnter(100 * 1000)) >= ENTER_K) }

ScenarioInit ==
    \E h \in ScenarioRings :
       /\ hist = h.hist /\ hist_i = h.hist_i /\ hist_count = h.hist_count
       /\ dist_init = TRUE
       \* the entry pushed last is the filtered distance
       /\ dist_f_cm = h.hist[((h.hist_i + CONF_N - 1) % CONF_N) + 1]
       /\ dist_cm = dist_f_cm
       /\ baseline_ready = TRUE
       /\ baseline_cm = 100 * 1000
       /\ base_n = BASELINE_SAMPLES
       /\ base_buf = [i \in 1..BASELINE_SAMPLES |-> 100 * 1000]
       /\ in_danger = FALSE
       /\ drop_strikes = 0
       /\ echo_us = EchoOpen
       /\ valid = TRUE
       /\ danger = 0
       /\ event = 0
       /\ line = PrintLine(echo_us, valid, dist_cm, dist_f_cm, baseline_ready,
                           baseline_cm, danger, event)
       /\ notices = 1
       /\ scene = EchoOpen
       /\ changes = 0
       /\ nvalid = 0
       /\ trail = <<>>
       /\ sketch = "1.ino"
       /\ OthersIdle

\* one valid cycle whose filter stage yields the next distance of the script
ScenarioFeed ==
    /\ nvalid < Len(ScenarioDist)
    /\ \E x \in {ScenarioDist[nvalid + 1]} :
          /\ echo_us' = (2 * x) \div CM_PER_US_ONEWAY
          /\ AfterFilter(x, [dist_f_cm |-> x, drop_strikes |-> drop_strikes])
    /\ valid' = TRUE
    /\ line' = PrintLine(echo_us', valid', dist_cm', dist_f_cm', baseline_ready',
                         baseline_cm', danger', event')
    /\ nvalid' = nvalid + 1
    /\ trail' = TrailPush(trail, TrailRecord)
    /\ UNCHANGED <<scene, changes, others>>

ScenarioNext == ScenarioFeed

ScenarioSpec == ScenarioInit /\ [][ScenarioNext]_vars

(***************************************************************************)
(* The Ranging Sampler alone: readEchoMedian (lines 99-110) on every       *)
(* NPINGS-tuple of raw pulseIn results over SubsampleValues (timeout,      *)
(* both edges of the validity window from inside and outside, and a        *)
(* mid-range echo), and on the tuples obtained by exchanging neighbours.   *)
(* nvalid counts the calls made.                                           *)
(***************************************************************************)
SubsampleValues ==
    {0, ECHO_MIN_US - 1, ECHO_MIN_US, EchoOpen, ECHO_MAX_US, ECHO_MAX_US + 1}

\* the globals as initialised at lines 57-73, before the first pass of loop()
PowerOn ==
    /\ dist_init = FALSE
    /\ dist_f_cm = 0
    /\ baseline_ready = FALSE
    /\ baseline_cm = 0
    /\ base_n = 0
    /\ base_buf = [i \in 1..BASELINE_SAMPLES |-> 0]
    /\ in_danger = FALSE
    /\ hist = [i \in 1..CONF_N |-> 0]
    /\ hist_i = 0
    /\ hist_count = 0
    /\ drop_strikes = 0
    /\ valid = FALSE
    /\ dist_cm = 0
    /\ danger = 0
    /\ event = 0
    /\ line = PrintLine(0, FALSE, 0, 0, FALSE, 0, 0, 0)
    /\ notices = 0
    /\ scene = EchoOpen
    /\ changes = 0
    /\ nvalid = 0
    /\ trail = <<>>
    /\ sketch = "1.ino"
    /\ PoolIdle /\ AirIdle

SamplerInit ==
    /\ subsamples \in [1..NPINGS -> SubsampleValues]
    /\ echo_us = 0
    /\ PowerOn

\* what a call leaves untouched
SamplerFrame ==
    UNCHANGED <<state, dist_cm, danger, event, line, notices, scene, changes,
                trail, sketch, pool, air>>

\* lines 156-157: echo_us = readEchoMedian(); valid = (echo_us != 0)
SamplerRead ==
    /\ nvalid = 0
    /\ echo_us' = readEchoMedian(subsamples)
    /\ valid' = (echo_us' # 0)
    /\ nvalid' = 1
    /\ UNCHANGED subsamples
    /\ SamplerFrame

\* the same sub-samples arrive with two neighbours exchanged
SamplerSwap ==
    /\ nvalid = 1
    /\ \E i \in 1..(NPINGS - 1) :
          subsamples' = [subsamples EXCEPT ![i] = subsamples[i + 1],
                                           ![i + 1] = subsamples[i]]
    /\ echo_us' = readEchoMedian(subsamples')
    /\ valid' = (echo_us' # 0)
    /\ UNCHANGED nvalid
    /\ SamplerFrame

SamplerNext == SamplerRead \/ SamplerSwap

SamplerSpec == SamplerInit /\ [][SamplerNext]_vars

(***************************************************************************)
(* The Distance Converter alone: line 168,                                 *)
(* dist_cm = clampf(echoToDistCm(echo_us), MIN_DIST_CM, MAX_DIST_CM), on   *)
(* durations from 0 to past the lower clamp point, around the upper clamp  *)
(* point, at ECHO_MAX_US and at the pulseIn timeout.  valid tells whether  *)
(* a conversion has been made.                                             *)
(***************************************************************************)
Durations ==
    LET lo == (2 * MIN_DIST_CM) \div CM_PER_US_ONEWAY
        hi == (2 * MAX_DIST_CM) \div CM_PER_US_ONEWAY
    IN  (0..(lo + ConvMargin)) \cup ((hi - ConvMargin)..(hi + ConvMargin))
           \cup {ECHO_MAX_US, 2 * ECHO_MAX_US}

ConverterInit ==
    /\ echo_us \in Durations
    /\ subsamples = <<>>
    /\ PowerOn

ConverterFrame ==
    UNCHANGED <<state, danger, event, line, notices, env, trail, others>>

\* the first conversion
ConvertFirst ==
    /\ ~valid
    /\ valid' = TRUE
    /\ dist_cm' = clampf(echoToDistCm(echo_us), MIN_DIST_CM, MAX_DIST_CM)
    /\ UNCHANGED echo_us
    /\ ConverterFrame

\* the conversion of another duration
ConvertNext ==
    /\ valid
    /\ echo_us' \in Durations
    /\ dist_cm' = clampf(echoToDistCm(echo_us'), MIN_DIST_CM, MAX_DIST_CM)
    /\ UNCHANGED valid
    /\ ConverterFrame

ConverterNext == ConvertFirst \/ ConvertNext

ConverterSpec == ConverterInit /\ [][ConverterNext]_vars

(***************************************************************************)
(* The pool-stable sketch (motor.ino lines 49-234): absolute threshold     *)
(* SAFE_DIST_CM, single-sample drop rejection, no baseline.  Its globals   *)
(* dist_init, dist_f_cm, in_danger, hist, hist_i, hist_count and its       *)
(* helpers clampf, readEchoMedian, echoToDistCm, pushHist, countBelow and  *)
(* countAbove are those of 1.ino under the same names.  The danger scalar  *)
(* is kept in units of 1/POOL_SLOPE_CM.                                    *)
(***************************************************************************)
\* mutant: a sudden drop is taken into the EMA like any other reading
PoolFilterStepMutAccept(init, f, d) == IF ~init THEN d ELSE EmaUpdate(d, f)

\* motor.ino lines 176-186
PoolFilterStep(init, f, d) ==
    IF ~init THEN d
    ELSE IF 100 * d < (100 - POOL_DROP_REJECT_FRAC) * f
         THEN f
         ELSE EmaUpdate(d, f)

\* log-only safe reference, motor.ino lines 189-192
PoolSafeRef(n, ref, f) ==
    IF n < CAL_SAMPLES
    THEN [cal_n |-> n + 1,
          safe_ref_cm |-> IF n = 0 THEN f ELSE (85 * ref + 15 * f) \div 100]
    ELSE [cal_n |-> n, safe_ref_cm |-> ref]

\* motor.ino lines 210-218
PoolDangerScalar(dang, f) ==
    IF dang
    THEN LET far == SAFE_DIST_CM + POOL_SLOPE_CM
         IN  IF f <= SAFE_DIST_CM THEN POOL_SLOPE_CM
             ELSE IF f >= far THEN 0
             ELSE (far - SAFE_DIST_CM) - (f - SAFE_DIST_CM)
    ELSE 0

\* motor.ino lines 223-231
PoolPrintLine(e, v, d, f, n, ref, dang, dg, ev) ==
    [echo_us     |-> e,
     valid       |-> IF v THEN 1 ELSE 0,
     dist_cm     |-> IF v THEN PrintDist(d) ELSE 0,
     dist_f_cm   |-> PrintDist(f),
     safe_ref_cm |-> IF n >= CAL_SAMPLES THEN PrintDist(ref) ELSE 0,
     in_danger   |-> IF dang THEN 1 ELSE 0,
     danger      |-> (dg * 1000 + POOL_SLOPE_CM \div 2) \div POOL_SLOPE_CM,
     event       |-> ev]

PoolInit ==
    /\ sketch = "motor.ino"
    /\ dist_init = FALSE
    /\ dist_f_cm = 0
    /\ in_danger = FALSE
    /\ hist = [i \in 1..CONF_N |-> 0]
    /\ hist_i = 0
    /\ hist_count = 0
    /\ PoolIdle
    /\ echo_us = 0
    /\ valid = FALSE
    /\ dist_cm = 0
    /\ danger = 0
    /\ event = 0
    /\ line = PoolPrintLine(0, FALSE, 0, 0, 0, 0, FALSE, 0, 0)
    /\ scene \in EchoLevels
    /\ changes = 0
    /\ nvalid = 0
    \* not part of this sketch
    /\ baseline_ready = FALSE
    /\ baseline_cm = 0
    /\ base_n = 0
    /\ base_buf = [i \in 1..BASELINE_SAMPLES |-> 0]
    /\ drop_strikes = 0
    /\ notices = 0
    /\ trail = <<>>
    /\ subsamples = <<>>
    /\ AirIdle

\* the "if (valid)" branch, motor.ino lines 173-218
PoolValidCycle(e) ==
    \E d \in {clampf(echoToDistCm(e), MIN_DIST_CM, MAX_DIST_CM)} :
    \E f \in {PoolFilterStep(dist_init, dist_f_cm, d)} :
    \E ref \in {PoolSafeRef(cal_n, safe_ref_cm, f)} :
    \E h \in {pushHist([hist |-> hist, hist_i |-> hist_i, hist_count |-> hist_count], f)} :
    \E tr \in {Transition(in_danger, h, SAFE_DIST_CM, SAFE_DIST_CM + HYST_CM)} :
       /\ dist_cm' = d
       /\ dist_init' = TRUE
       /\ dist_f_cm' = f
       /\ cal_n' = ref.cal_n
       /\ safe_ref_cm' = ref.safe_ref_cm
       /\ hist' = h.hist
       /\ hist_i' = h.hist_i
       /\ hist_count' = h.hist_count
       /\ in_danger' = tr.in_danger
       /\ event' = tr.event
       /\ danger' = PoolDangerScalar(tr.in_danger, f)

\* the "else" branch, motor.ino lines 219-221
PoolInvalidCycle ==
    /\ dist_cm' = 0
    /\ danger' = 0
    /\ event' = 0
    /\ UNCHANGED <<dist_init, dist_f_cm, cal_n, safe_ref_cm, hist, hist_i,
                   hist_count, in_danger>>

\* one pass of loop() of motor.ino (lines 163-234) whose readEchoMedian
\* returns e
PoolPass(e) ==
    /\ echo_us' = e
    /\ valid' = (e # 0)
    /\ IF e # 0 THEN PoolValidCycle(e) ELSE PoolInvalidCycle
    /\ line' = PoolPrintLine(echo_us', valid', dist_cm', dist_f_cm', cal_n',
                             safe_ref_cm', in_danger', danger', event')
    /\ nvalid' = IF e # 0 THEN nvalid + 1 ELSE nvalid
    /\ e # 0 => nvalid < MaxPoolCycles
    /\ UNCHANGED <<baseline_ready, baseline_cm, base_n, base_buf, drop_strikes,
                   notices, trail, sketch, subsamples, air>>

PoolLoopSteady ==
    /\ \E p \in PingPatterns(scene) : PoolPass(readEchoMedian(p))
    /\ UNCHANGED <<scene, changes>>

PoolLoopChange ==
    /\ changes < MaxChanges
    /\ \E lv \in EchoLevels \ {scene} :
          /\ \E p \in PingPatterns(lv) :
                \E e \in {readEchoMedian(p)} : e # 0 /\ PoolPass(e)
          /\ scene' = lv
    /\ changes' = changes + 1

PoolNext == PoolLoopSteady \/ PoolLoopChange

PoolSpec == PoolInit /\ [][PoolNext]_vars

(***************************************************************************)
(* The air sketch (sketch_feb13a.ino lines 1-162): one ping per pass, a    *)
(* median baseline of raw distances, a danger ramp between the stop and    *)
(* warn distances, smoothed by an EMA.  Its loop() uses baseline_ready,    *)
(* echo_us, dist_cm and danger under the same names as 1.ino.              *)
(***************************************************************************)
\* airDistanceCmFromUs, lines 45-47: echo_us * 0.0343 / 2 = echo_us * 17.15
\* units of 0.001 cm
airDistanceCmFromUs(e) == (e * 343) \div 20

\* clamp01, lines 49-53 (defined by the sketch, called nowhere)
clamp01(x) == IF x < 0 THEN 0 ELSE IF x > AIR_ONE THEN AIR_ONE ELSE x

RECURSIVE InsertKey(_, _, _)
\* the while loop of median, lines 63-67: shift the entries greater than key
\* up from index j downwards, then store key
InsertKey(tmp, j, key) ==
    IF j >= 1 /\ tmp[j] > key
    THEN InsertKey([tmp EXCEPT ![j + 1] = tmp[j]], j - 1, key)
    ELSE [tmp EXCEPT ![j + 1] = key]

RECURSIVE InsertionSort(_, _, _)
\* the for loop of median, lines 60-68, from index i on
InsertionSort(tmp, n, i) ==
    IF i > n \/ Len(tmp) < n THEN tmp
    ELSE InsertionSort(InsertKey(tmp, i - 1, tmp[i]), n, i + 1)

\* median, lines 56-72
median(a, n) ==
    LET tmp == InsertionSort(a, n, 2)
    IN  IF n % 2 = 1 THEN tmp[(n \div 2) + 1]
        ELSE (tmp[n \div 2] + tmp[(n \div 2) + 1]) \div 2

\* stuck diagnostic, lines 90-91
AirSameCount(e) ==
    IF last_echo > 0 /\ e - last_echo <= STUCK_EPS_US /\ last_echo - e <= STUCK_EPS_US
    THEN same_count + 1 ELSE 0

\* measurement validity and distance, lines 96-102
AirMeasure(e) ==
    IF e >= ECHO_MIN_US_AIR /\ e <= ECHO_MAX_US_AIR
    THEN LET d == airDistanceCmFromUs(e)
         IN  [dist_cm |-> d,
              meas_valid |-> ~(d < DIST_MIN_CM_AIR \/ d > DIST_MAX_CM_AIR)]
    ELSE [dist_cm |-> -1000, meas_valid |-> FALSE]

\* danger relative to the baseline, lines 130-149
AirDanger(mv, d, base, smoothed) ==
    IF mv
    THEN LET warn0 == base - MARGIN_WARN_CM
             stop0 == base - MARGIN_STOP_CM
             warn_dist == IF warn0 < 0 THEN 0 ELSE warn0
             stop_dist == IF stop0 < 0 THEN 0 ELSE stop0
         IN  IF d >= warn_dist THEN 0
             ELSE IF d <= stop_dist THEN AIR_ONE
             ELSE ((warn_dist - d) * AIR_ONE) \div (warn_dist - stop_dist)
    ELSE smoothed

\* line 151
AirSmooth(dg, smoothed) == (OUT_ALPHA * dg + (100 - OUT_ALPHA) * smoothed) \div 100

\* the printed line, lines 117-123 and 153-159; danger in thousandths
AirPrintLine(e, d, mv, st, base, dg) ==
    [echo_us     |-> e,
     dist_cm     |-> PrintDist(d),
     meas_valid  |-> IF mv THEN 1 ELSE 0,
     stuck       |-> IF st THEN 1 ELSE 0,
     baseline_cm |-> PrintDist(base),
     danger      |-> (dg * 1000 + AIR_ONE \div 2) \div AIR_ONE]

AirInit ==
    /\ sketch = "sketch_feb13a.ino"
    /\ AirIdle
    /\ baseline_ready = FALSE
    /\ echo_us = 0
    /\ dist_cm = 0
    /\ danger = 0
    /\ line = AirPrintLine(0, 0, FALSE, FALSE, 0, 0)
    /\ notices = 0
    /\ scene \in AirEchoLevels
    /\ changes = 0
    /\ nvalid = 0
    \* not part of this sketch
    /\ dist_init = FALSE
    /\ dist_f_cm = 0
    /\ baseline_cm = 0
    /\ base_n = 0
    /\ base_buf = [i \in 1..BASELINE_SAMPLES |-> 0]
    /\ in_danger = FALSE
    /\ hist = [i \in 1..CONF_N |-> 0]
    /\ hist_i = 0
    /\ hist_count = 0
    /\ drop_strikes = 0
    /\ valid = FALSE
    /\ event = 0
    /\ trail = <<>>
    /\ subsamples = <<>>
    /\ PoolIdle

\* 1) baseline learning phase, lines 105-127
AirLearn(e, m) ==
    /\ IF m.meas_valid
       THEN /\ dist_buf' = [dist_buf EXCEPT ![buf_n + 1] = m.dist_cm]
            /\ buf_n' = buf_n + 1
            /\ IF buf_n' >= BASELINE_SAMPLES
               THEN /\ D_base' = median(dist_buf', BASELINE_SAMPLES)
                    /\ baseline_ready' = TRUE
                    /\ notices' = notices + 1
               ELSE UNCHANGED <<D_base, baseline_ready, notices>>
       ELSE UNCHANGED <<dist_buf, buf_n, D_base, baseline_ready, notices>>
    /\ danger' = 0
    /\ UNCHANGED danger_smoothed
    /\ line' = AirPrintLine(e, m.dist_cm, m.meas_valid, stuck', 0, 0)

\* 2) danger relative to baseline, lines 129-159
AirDetect(e, m) ==
    /\ danger' = AirDanger(m.meas_valid, m.dist_cm, D_base, danger_smoothed)
    /\ danger_smoothed' = AirSmooth(danger', danger_smoothed)
    /\ line' = AirPrintLine(e, m.dist_cm, m.meas_valid, stuck', D_base,
                            danger_smoothed')
    /\ UNCHANGED <<dist_buf, buf_n, D_base, baseline_ready, notices>>

\* one pass of loop() of the air sketch (lines 85-162) whose readEchoUs
\* returns e
AirPass(e) ==
    /\ echo_us' = e
    /\ same_count' = AirSameCount(e)
    /\ last_echo' = e
    /\ stuck' = (same_count' >= STUCK_LIMIT)
    /\ \E m \in {AirMeasure(e)} :
          /\ meas_valid' = m.meas_valid
          /\ dist_cm' = m.dist_cm
          /\ IF ~baseline_ready THEN AirLearn(e, m) ELSE AirDetect(e, m)
          /\ nvalid' = IF m.meas_valid THEN nvalid + 1 ELSE nvalid
          /\ m.meas_valid => nvalid < BASELINE_SAMPLES + MaxAirPost
          /\ (~m.meas_valid /\ e # 0) => same_count' <= MaxAirRepeat
    /\ UNCHANGED <<dist_init, dist_f_cm, baseline_cm, base_n, base_buf, in_danger,
                   hist, hist_i, hist_count, drop_strikes, valid, event, trail,
                   sketch, subsamples, pool>>

\* the scene stays as it is; the ping is answered or not
AirLoopSteady ==
    /\ \E e \in {scene} \cup AirEchoInvalid : AirPass(e)
    /\ UNCHANGED <<scene, changes>>

\* the scene changes and is seen on this pass
AirLoopChange ==
    /\ changes < MaxAirChanges
    /\ \E lv \in AirEchoLevels \ {scene} :
          /\ AirPass(lv)
          /\ scene' = lv
    /\ changes' = changes + 1

AirNext == AirLoopSteady \/ AirLoopChange

AirSpec == AirInit /\ [][AirNext]_vars

(***************************************************************************)
(* The two sketches with a baseline buffer, each on its own run: a         *)
(* behaviour is a run of 1.ino or a run of the air sketch.                 *)
(***************************************************************************)
BuffersInit == Init \/ AirInit

\* loop() of 1.ino
BuffersMainLoop == sketch = "1.ino" /\ Next

\* loop() of sketch_feb13a.ino
BuffersAirLoop == sketch = "sketch_feb13a.ino" /\ AirNext

BuffersNext == BuffersMainLoop \/ BuffersAirLoop

BuffersSpec == BuffersInit /\ [][BuffersNext]_vars

(***************************************************************************)
(* Properties                                                              *)
(***************************************************************************)
\* a step is a valid pass of loop() exactly when it counts a valid cycle
ValidPass == nvalid' = nvalid + 1

\* the entries of the ring (after the push) that confirm an entry / an exit
ConfirmBelow(h, base) == {i \in 1..CONF_N : h[i] <= base - MARGIN_CM}

ConfirmAbove(h, base) == {i \in 1..CONF_N : h[i] >= base - MARGIN_CM + HYST_CM}

\* C1: on every cycle, valid or invalid, that ends with the baseline not yet
\* ready, in_danger is false, the intensity is 0 (computed and printed), the
\* event is 0 and the baseline, enter and exit fields are printed as 0.0.
C1_NotReadyForcedSafe ==
    ~baseline_ready =>
        /\ in_danger = FALSE
        /\ danger = 0 /\ line.danger = 0
        /\ event = 0 /\ line.event = 0
        /\ line.baseline_cm = 0 /\ line.thr_enter = 0 /\ line.thr_exit = 0

\* a valid cycle of the learning phase, after the scene has changed, whose
\* filtered distance is closer than 40 cm
C1_Witness ==
    /\ ~baseline_ready /\ valid /\ changes >= 1
    /\ base_n >= 20 /\ dist_f_cm < 40000 /\ line.dist_f_cm < 400

\* C2: in_danger goes false->true on a cycle only if, after that cycle's push,
\* the ring holds CONF_N entries of which at least ENTER_K are <= enter; it
\* goes true->false only if the ring holds CONF_N entries of which at least
\* EXIT_K are >= exit.  A ring with at most one confirming entry never flips
\* the state.
C2_TransitionStep ==
    /\ (~in_danger /\ in_danger') =>
          /\ baseline_ready'
          /\ hist_count' = CONF_N
          /\ Cardinality(ConfirmBelow(hist', baseline_cm')) >= ENTER_K
    /\ (in_danger /\ ~in_danger') =>
          /\ baseline_ready'
          /\ hist_count' = CONF_N
          /\ Cardinality(ConfirmAbove(hist', baseline_cm')) >= EXIT_K
    /\ (~in_danger /\ Cardinality(ConfirmBelow(hist', baseline_cm')) <= 1) => ~in_danger'
    /\ (in_danger /\ Cardinality(ConfirmAbove(hist', baseline_cm')) <= 1) => in_danger'

C2_ConfirmedTransitions == [][C2_TransitionStep]_vars

\* the classifier has just left DANGER on a ring with exactly EXIT_K entries
\* >= exit and one entry <= enter
C2_Witness ==
    /\ baseline_ready /\ ~in_danger /\ event = -1 /\ hist_count = CONF_N
    /\ Cardinality(ConfirmAbove(hist, baseline_cm)) = EXIT_K
    /\ Cardinality(ConfirmBelow(hist, baseline_cm)) = 1

\* C3: the event is +1 exactly on the cycles where in_danger went false->true,
\* -1 exactly on the cycles where it went true->false and 0 on every other
\* cycle, invalid cycles included; the printed event is that event.  Hence an
\* entered event leaves the classifier in DANGER and is only fired from SAFE,
\* an exited event the converse: the two alternate, entered first.
C3_EventStep ==
    /\ event' \in {-1, 0, 1}
    /\ (event' = 1) <=> (~in_danger /\ in_danger')
    /\ (event' = -1) <=> (in_danger /\ ~in_danger')
    /\ (valid' = FALSE) => event' = 0
    /\ line'.event = event'

C3_EventState ==
    /\ (event = 1) => in_danger
    /\ (event = -1) => ~in_danger

C3_OneShotEvents == [](C3_EventState) /\ [][C3_EventStep]_vars

\* an exited event: the classifier has entered DANGER and left it again
C3_Witness == event = -1 /\ line.event = -1 /\ ~in_danger /\ valid

\* C4 as stated: from SAFE with the baseline at 100, feeding 35, 38, 36
\* produces the entered event on the 3rd of these cycles and not earlier, with
\* in_danger true and intensity 1.0; then feeding 65, 70, 75 produces the
\* exited event on the 3rd of these cycles and not earlier, with in_danger
\* false and intensity 0.
C4_ScenarioAsStated ==
    /\ nvalid \in {1, 2} => event # 1
    /\ nvalid = 3 => (event = 1 /\ in_danger /\ danger = DANGER_ONE)
    /\ nvalid \in {4, 5} => event # -1
    /\ nvalid = 6 => (event = -1 /\ ~in_danger /\ danger = 0)

C4_State ==
    /\ nvalid = 0 => ~in_danger
    /\ nvalid = 1 => (in_danger <=> event = 1)
    /\ nvalid = 2 => (in_danger /\ danger = DANGER_ONE /\ line.danger = 1000)
    /\ nvalid = 3 => (in_danger /\ event = 0 /\ danger = DANGER_ONE /\ line.danger = 1000)
    /\ nvalid = 4 => (in_danger /\ event = 0 /\ danger = DANGER_ONE - 25000)
    /\ nvalid = 5 => (~in_danger /\ event = -1 /\ danger = 0 /\ line.event = -1)
    /\ nvalid = 6 => (~in_danger /\ event = 0 /\ danger = 0 /\ line.danger = 0)

C4_Step ==
    /\ nvalid' = 1 =>
          (event' = 1 <=>
              /\ hist_count' = CONF_N
              /\ Cardinality(ConfirmBelow(hist', baseline_cm)) >= ENTER_K)
    /\ nvalid' = 2 => (event' = 1 <=> ~in_danger)

\* C4 amended: from SAFE with the baseline at 100 (enter 40, exit 60, far 180),
\* feeding 35, 38, 36 produces the entered event exactly once, on the 2nd of
\* these cycles, or already on the 1st when the ring is full after the push
\* of 35 and still holds an earlier distance <= enter; in_danger is true with
\* intensity 1.0 on the 2nd and 3rd cycle and the 3rd has no event.  Feeding
\* 65, 70, 75 then keeps DANGER on 65 (intensity 1 - 25/140), produces the
\* exited event on 70, the 2nd of these cycles, with in_danger false and
\* intensity 0, and 75 has no event.
C4_ScenarioAmended == [](C4_State) /\ [][C4_Step]_vars

\* the exited event on 70, the ring holding 36, 65, 70 in some rotation
C4_Witness ==
    /\ nvalid = 5 /\ event = -1 /\ ~in_danger /\ dist_f_cm = 70000
    /\ {hist[i] : i \in 1..CONF_N} = {36000, 65000, 70000}
    /\ notices = 1 /\ baseline_cm = 100000

\* C5: a cycle whose ranging result is invalid leaves dist_init, dist_f_cm,
\* drop_strikes, the baseline buffer, count, readiness and value, the ring and
\* in_danger as they were, and is printed with valid=0.
C5_InvalidStep ==
    (valid' = FALSE) =>
        /\ UNCHANGED <<dist_init, dist_f_cm, drop_strikes>>
        /\ UNCHANGED <<base_buf, base_n, baseline_ready, baseline_cm>>
        /\ UNCHANGED <<hist, hist_i, hist_count, in_danger>>
        /\ line'.valid = 0 /\ echo_us' = 0

C5_InvalidCycleFrame == [][C5_InvalidStep]_vars

\* an invalid cycle while in DANGER with a full ring
C5_Witness ==
    /\ valid = FALSE /\ line.valid = 0 /\ nvalid > 0
    /\ in_danger /\ hist_count = CONF_N

\* C6: on a cycle with an invalid ranging result the printed intensity is the
\* one printed on the previous cycle.
C6_InvalidKeepsIntensity ==
    [][(valid' = FALSE) => line'.danger = line.danger]_vars

\* C7: baseline_ready is true exactly from the BASELINE_SAMPLES-th valid cycle
\* of the run on, however many invalid cycles are interleaved; every valid
\* cycle of the learning phase stores its filtered distance in the next slot
\* of the buffer; once ready, the baseline is the median of the buffer (an
\* element with at most n/2 entries below it and more than n/2 entries not
\* above it), baseline_ready, baseline_cm, base_n and the buffer never change
\* again, and the notice has been emitted exactly once.
C7_State ==
    /\ baseline_ready <=> nvalid >= BASELINE_SAMPLES
    /\ base_n = (IF nvalid < BASELINE_SAMPLES THEN nvalid ELSE BASELINE_SAMPLES)
    /\ notices = (IF baseline_ready THEN 1 ELSE 0)
    /\ baseline_ready =>
          /\ \E i \in 1..BASELINE_SAMPLES : base_buf[i] = baseline_cm
          /\ Cardinality({j \in 1..BASELINE_SAMPLES : base_buf[j] < baseline_cm})
                <= BASELINE_SAMPLES \div 2
          /\ Cardinality({j \in 1..BASELINE_SAMPLES : base_buf[j] <= baseline_cm})
                > BASELINE_SAMPLES \div 2

C7_Step ==
    /\ (~baseline_ready /\ ValidPass) =>
          base_buf' = [base_buf EXCEPT ![base_n + 1] = dist_f_cm']
    /\ (baseline_ready \/ ~ValidPass) =>
          UNCHANGED <<baseline_ready, baseline_cm, base_n, base_buf, notices>>

C7_BaselineCalibration == [](C7_State) /\ [][C7_Step]_vars

\* the calibration has just completed, after invalid cycles were interleaved,
\* on a buffer that is not in order: its middle slot is not its median
C7_Witness ==
    /\ baseline_ready /\ valid /\ nvalid = BASELINE_SAMPLES /\ notices = 1
    /\ base_buf[(BASELINE_SAMPLES \div 2) + 1] # baseline_cm
    /\ \E i, j \in 1..BASELINE_SAMPLES : base_buf[i] < baseline_cm /\ baseline_cm < base_buf[j]

\* the intensity the danger stage computes for filtered distance f
C8_Shape(dg, f, base) ==
    LET enter == base - MARGIN_CM
        far   == base - MARGIN_CM + HYST_CM + SLOPE_CM
    IN  /\ f <= enter => dg = DANGER_ONE
        /\ f >= far => dg = 0
        /\ (enter < f /\ f < far) => dg = far - f

\* C8: the intensity emitted on any cycle is in [0,1]; it is 0 on every cycle
\* that ends in SAFE; on every cycle that ends in DANGER it is 1 when the
\* filtered distance is <= enter, 0 when it is >= far, and in between it is the
\* strictly decreasing ramp from 1 at enter to 0 at far.
C8_IntensityShape ==
    /\ danger \in 0..DANGER_ONE
    /\ line.danger \in 0..1000
    /\ ~in_danger => danger = 0 /\ line.danger = 0
    /\ in_danger =>
          /\ C8_Shape(danger, dist_f_cm, baseline_cm)
          /\ line.danger = PrintDanger(danger)

\* the part of C8 that the valid cycles satisfy
C8_ValidCyclesOnly == valid => C8_IntensityShape

\* the original rule of C9 for one valid cycle: f and s are the filtered
\* distance and the strike counter before the cycle, d the clamped reading
C9_Rule(init, f, s, d, f1, s1) ==
    IF ~init
    THEN f1 = d /\ s1 = 0
    ELSE IF 100 * d < (100 - DROP_REJECT_FRAC) * f
         THEN IF s = 0
              THEN f1 = f /\ s1 = 1
              ELSE f1 = (DIST_EMA_A * d + (100 - DIST_EMA_A) * f) \div 100 /\ s1 = 2
         ELSE f1 = (DIST_EMA_A * d + (100 - DIST_EMA_A) * f) \div 100 /\ s1 = 0

\* C9 as stated: on every valid cycle the filtered distance and the strike
\* counter follow the step rule (first reading: taken over, strikes 0;
\* suspicious drop at strike 0: ignored, strikes 1; suspicious drop at strike
\* >= 1: EMA, strikes 2; otherwise: EMA, strikes 0), and the strike counter is
\* always in {0,1,2}.
C9_FilterStepRule ==
    /\ [](drop_strikes \in {0, 1, 2})
    /\ [][ValidPass =>
            C9_Rule(dist_init, dist_f_cm, drop_strikes, dist_cm',
                    dist_f_cm', drop_strikes')]_vars

\* C9 amended: the filtered distance follows the step rule on every valid
\* cycle, and the strike counter follows it on every valid cycle except the
\* one that completes the calibration, which ends with the strike counter 0;
\* the strike counter is always in {0,1,2}.
C9_FilterStepRuleAmended ==
    /\ [](drop_strikes \in {0, 1, 2})
    /\ [][ValidPass =>
            \E s1 \in {0, 1, 2} :
               /\ C9_Rule(dist_init, dist_f_cm, drop_strikes, dist_cm',
                          dist_f_cm', s1)
               /\ drop_strikes' = (IF ~baseline_ready /\ baseline_ready'
                                   THEN 0 ELSE s1)]_vars

\* the cycle that completes the calibration read a suspicious drop, which was
\* ignored, and ends with the strike counter 0
C9_Witness ==
    /\ valid /\ baseline_ready /\ nvalid = BASELINE_SAMPLES
    /\ 100 * dist_cm < (100 - DROP_REJECT_FRAC) * dist_f_cm
    /\ base_buf[BASELINE_SAMPLES] = base_buf[BASELINE_SAMPLES - 1]
    /\ drop_strikes = 0

\* each update of the filter leaves it between its previous value and the
\* clamped sample
C10_EmaStep ==
    (ValidPass /\ dist_init) =>
        \/ dist_f_cm <= dist_f_cm' /\ dist_f_cm' <= dist_cm'
        \/ dist_cm' <= dist_f_cm' /\ dist_f_cm' <= dist_f_cm

\* C10 as stated: the filtered distance is within [MIN_DIST_CM, MAX_DIST_CM]
\* in every reachable state, and each EMA update leaves it between its
\* previous value and the new clamped sample.
C10_FilteredInRange ==
    /\ [](dist_f_cm \in MIN_DIST_CM..MAX_DIST_CM)
    /\ [][C10_EmaStep]_vars

\* C10 amended: the filtered distance is 0.0 until the first valid reading and
\* within [MIN_DIST_CM, MAX_DIST_CM] from then on (and so is the clamped
\* sample of every valid cycle); each EMA update leaves it between its
\* previous value and the new clamped sample.
C10_FilteredInRangeAmended ==
    /\ [](/\ ~dist_init => (dist_f_cm = 0 /\ line.dist_f_cm = 0)
          /\ dist_init => dist_f_cm \in MIN_DIST_CM..MAX_DIST_CM
          /\ valid => dist_cm \in MIN_DIST_CM..MAX_DIST_CM)
    /\ [][C10_EmaStep]_vars

\* an echo nearer than MIN_DIST_CM was clamped, and the filter has followed
\* it strictly between its previous value and the sample
C10_Witness ==
    /\ dist_init /\ valid /\ echoToDistCm(echo_us) < MIN_DIST_CM
    /\ dist_cm = MIN_DIST_CM
    /\ drop_strikes = 2 /\ dist_cm < dist_f_cm
    /\ dist_f_cm < base_buf[1]

\* the last CONF_N valid cycles all ran with the baseline ready, started in
\* SAFE and read filtered distances <= enter
C11_Window ==
    /\ Len(trail) = CONF_N
    /\ trail[1].ready0 /\ ~trail[1].dang0
    /\ \A i \in 1..CONF_N : trail[i].f <= baseline_cm - MARGIN_CM

C11_Held ==
    (in_danger /\ ~in_danger') =>
        /\ hist_count' = CONF_N
        /\ Cardinality({i \in 1..CONF_N : hist'[i] >= baseline_cm' - MARGIN_CM + HYST_CM})
              >= EXIT_K

\* C11: once the baseline is ready and the classifier is in SAFE, CONF_N
\* consecutive valid cycles whose filtered distances are all <= enter produce
\* exactly one entered event and no exited event within those cycles, so the
\* classifier is in DANGER no later than the CONF_N-th; in_danger goes back to
\* false only on a cycle whose full ring holds at least EXIT_K entries >= exit.
C11_BoundedResponse ==
    /\ [](C11_Window =>
            /\ Cardinality({i \in 1..CONF_N : trail[i].ev = 1}) = 1
            /\ \A i \in 1..CONF_N : trail[i].ev # -1
            /\ in_danger)
    /\ [][C11_Held]_vars

\* three valid cycles <= enter right after the calibration: the ring fills on
\* the 2nd of them, which enters DANGER, and invalid cycles have followed
C11_Witness ==
    /\ C11_Window /\ in_danger /\ ~valid
    /\ trail[1].ev = 0 /\ trail[2].ev = 1 /\ trail[3].ev = 0
    /\ trail[1].f > trail[3].f

\* the positions of the sub-samples that lie in the validity window
C12_Validated == {i \in 1..NPINGS : ECHO_MIN_US <= subsamples[i] /\ subsamples[i] <= ECHO_MAX_US}

C12_Result ==
    nvalid = 1 =>
        LET k == Cardinality(C12_Validated)
        IN  /\ (echo_us = 0) <=> (k = 0)
            /\ valid <=> (k > 0)
            /\ k > 0 =>
                  /\ \E i \in C12_Validated : subsamples[i] = echo_us
                  /\ Cardinality({j \in C12_Validated : subsamples[j] < echo_us}) <= k \div 2
                  /\ Cardinality({j \in C12_Validated : subsamples[j] <= echo_us}) > k \div 2

\* C12: of the NPINGS sub-samples exactly those within [ECHO_MIN_US,
\* ECHO_MAX_US] contribute; the result is 0 iff none validated; otherwise it
\* is one of the validated durations, the one at index k/2 of their sorted
\* order (at most k/2 validated durations are smaller, more than k/2 are not
\* larger); and it is the same when the sub-samples arrive in another order.
C12_SamplerMedian ==
    /\ [](C12_Result)
    /\ [][(nvalid = 1 /\ nvalid' = 1) => echo_us' = echo_us]_vars

\* four validated sub-samples out of order, two at ECHO_MIN_US and two at
\* ECHO_MAX_US: the upper median is returned
C12_Witness ==
    /\ nvalid = 1 /\ Cardinality(C12_Validated) = 4
    /\ echo_us = ECHO_MAX_US
    /\ Cardinality({j \in 1..NPINGS : subsamples[j] = ECHO_MIN_US}) = 2
    /\ subsamples[1] = ECHO_MAX_US /\ subsamples[2] = 0 /\ subsamples[NPINGS] = ECHO_MIN_US

\* C13: when at least NPINGS - (NPINGS-1)/2 = 4 of the sub-samples are good
\* readings, all within the window and between lo and hi, and the others (at
\* most 3) are anything, the result lies between lo and hi.
C13_OutlierTolerance ==
    nvalid = 1 =>
        \A lo, hi \in {v \in SubsampleValues : ECHO_MIN_US <= v /\ v <= ECHO_MAX_US} :
            Cardinality({i \in 1..NPINGS : lo <= subsamples[i] /\ subsamples[i] <= hi})
                  >= NPINGS - ((NPINGS - 1) \div 2)
               => (lo <= echo_us /\ echo_us <= hi)

\* four good readings at the open-water echo, and three outliers: one
\* in-window echo below them, one above them and a timeout
C13_Witness ==
    /\ nvalid = 1 /\ echo_us = EchoOpen
    /\ Cardinality({i \in 1..NPINGS : subsamples[i] = EchoOpen}) = 4
    /\ \E i, j, l \in 1..NPINGS :
          subsamples[i] = ECHO_MIN_US /\ subsamples[j] = ECHO_MAX_US /\ subsamples[l] = 0
    /\ subsamples[1] # EchoOpen /\ subsamples[NPINGS] = EchoOpen

C14_Range ==
    valid =>
        /\ dist_cm >= MIN_DIST_CM /\ dist_cm <= MAX_DIST_CM
        /\ echo_us * CM_PER_US_ONEWAY < 2 * MIN_DIST_CM => dist_cm = MIN_DIST_CM
        /\ echo_us * CM_PER_US_ONEWAY > 2 * MAX_DIST_CM => dist_cm = MAX_DIST_CM

\* C14: for every non-negative duration the converted and clamped distance
\* is within [MIN_DIST_CM, MAX_DIST_CM]; a duration that maps below
\* MIN_DIST_CM gives MIN_DIST_CM, one that maps above MAX_DIST_CM gives
\* MAX_DIST_CM; and a duration that is not smaller gives a distance that is
\* not smaller.
C14_ConverterClamped ==
    /\ [](C14_Range)
    /\ [][(valid /\ valid' /\ echo_us <= echo_us') => dist_cm <= dist_cm']_vars

\* the first duration that maps above MAX_DIST_CM
C14_Witness ==
    /\ valid /\ dist_cm = MAX_DIST_CM
    /\ echo_us * CM_PER_US_ONEWAY > 2 * MAX_DIST_CM
    /\ (echo_us - 1) * CM_PER_US_ONEWAY < 2 * MAX_DIST_CM

\* the ring is as after one push of the new filtered distance onto the ring
\* that had write index i and count c
C15_PushedOnce(i, c) ==
    /\ hist' = [hist EXCEPT ![i + 1] = dist_f_cm']
    /\ hist_i' = (i + 1) % CONF_N
    /\ hist_count' = (IF c < CONF_N THEN c + 1 ELSE CONF_N)

\* the n newest entries of the ring are the filtered distances of the last n
\* valid cycles, newest first from the write index backwards
C15_HoldsRecent(n) ==
    /\ hist_count >= n /\ Len(trail) >= n
    /\ \A j \in 1..n :
          hist[((hist_i + CONF_N - j) % CONF_N) + 1] = trail[Len(trail) + 1 - j].f

\* C15 as stated: the ring is pushed exactly once on every valid cycle of the
\* run, learning phase included, and on no other cycle, so that after any
\* CONF_N valid cycles it holds the CONF_N most recent filtered distances.
C15_PushEveryValidCycle ==
    /\ [][IF ValidPass THEN C15_PushedOnce(hist_i, hist_count)
                       ELSE UNCHANGED <<hist, hist_i, hist_count>>]_vars
    /\ [](nvalid >= CONF_N => C15_HoldsRecent(CONF_N))

C15_Step ==
    IF ValidPass /\ baseline_ready'
    THEN IF baseline_ready
         THEN C15_PushedOnce(hist_i, hist_count)
         ELSE C15_PushedOnce(0, 0)
    ELSE UNCHANGED <<hist, hist_i, hist_count>>

\* C15 amended: the ring is pushed exactly once on every valid cycle that
\* ends with the baseline ready (on the cycle that completes the calibration:
\* once, onto the emptied ring) and on no other cycle: not on invalid cycles
\* and not on the valid cycles of the learning phase before it.  After n
\* valid cycles counted from the one that completes the calibration it holds
\* the min(n, CONF_N) most recent filtered distances.
C15_PushWhenReady ==
    /\ [][C15_Step]_vars
    /\ [](/\ hist_count = (IF nvalid < BASELINE_SAMPLES THEN 0
                           ELSE IF nvalid - BASELINE_SAMPLES + 1 < CONF_N
                                THEN nvalid - BASELINE_SAMPLES + 1 ELSE CONF_N)
          /\ C15_HoldsRecent(hist_count))

\* the ring has wrapped: CONF_N + 1 pushes since the calibration, three
\* different distances in it
C15_Witness ==
    /\ nvalid = BASELINE_SAMPLES + CONF_N /\ hist_count = CONF_N /\ hist_i = 1
    /\ hist[1] < hist[3] /\ hist[3] < hist[2]
    /\ hist[1] = dist_f_cm

\* C16: exit = enter + HYST_CM is strictly greater than enter (as computed
\* and as printed), and in_danger goes true->false only on a valid cycle
\* whose filtered distance is at least exit: a cycle whose filtered distance
\* is below exit never ends DANGER.
C16_HysteresisBand ==
    /\ [](/\ HYST_CM > 0
          /\ ThrExit(baseline_cm) > ThrEnter(baseline_cm)
          /\ baseline_ready => line.thr_exit > line.thr_enter)
    /\ [][(in_danger /\ ~in_danger') =>
             /\ valid'
             /\ dist_f_cm' >= baseline_cm' - MARGIN_CM + HYST_CM]_vars

\* DANGER has just ended: the last two filtered distances are >= exit, the
\* one before them was <= enter
C16_Witness ==
    /\ event = -1 /\ ~in_danger /\ Len(trail) = CONF_N
    /\ trail[CONF_N].f = dist_f_cm /\ trail[CONF_N].dang0
    /\ trail[CONF_N].f >= baseline_cm - MARGIN_CM + HYST_CM
    /\ trail[CONF_N - 1].f >= baseline_cm - MARGIN_CM + HYST_CM
    /\ trail[1].f <= baseline_cm - MARGIN_CM

\* the valid cycle recorded as r applied the EMA update
C17_Applied(r) ==
    r.init0 /\ r.f = (DIST_EMA_A * r.d + (100 - DIST_EMA_A) * r.f0) \div 100

\* the reading of the valid cycle recorded as r was below the reject limit
C17_Drop(r) == r.init0 /\ 100 * r.d < (100 - DROP_REJECT_FRAC) * r.f0

\* the last two valid cycles, the earlier one after the first reading
C17_Pair == Len(trail) >= 2 /\ trail[Len(trail) - 1].init0

\* the earlier of the last two valid cycles completed the calibration
C17_AcrossCalibration ==
    ~trail[Len(trail) - 1].ready0 /\ trail[Len(trail)].ready0

\* C17 as stated: after the first valid reading, of any two consecutive valid
\* cycles at least one applies the EMA update; and once a suspicious drop has
\* been accepted, the next reading below the reject limit is accepted too
\* (with a constant low reading only the first one is ignored).
C17_NeverFreezes ==
    C17_Pair =>
        /\ C17_Applied(trail[Len(trail) - 1]) \/ C17_Applied(trail[Len(trail)])
        /\ (C17_Drop(trail[Len(trail) - 1]) /\ C17_Applied(trail[Len(trail) - 1])
               /\ C17_Drop(trail[Len(trail)]))
              => C17_Applied(trail[Len(trail)])

\* C17 amended: the same, for every two consecutive valid cycles of which the
\* first is not the one that completes the calibration; the valid cycle that
\* follows the completion of the calibration ignores a reading below the
\* reject limit whatever happened before; and of any three consecutive valid
\* cycles after the first reading at least one applies the EMA update.
C17_NeverFreezesAmended ==
    /\ (C17_Pair /\ ~C17_AcrossCalibration) =>
          /\ C17_Applied(trail[Len(trail) - 1]) \/ C17_Applied(trail[Len(trail)])
          /\ (C17_Drop(trail[Len(trail) - 1]) /\ C17_Applied(trail[Len(trail) - 1])
                 /\ C17_Drop(trail[Len(trail)]))
                => C17_Applied(trail[Len(trail)])
    /\ (C17_Pair /\ C17_AcrossCalibration /\ C17_Drop(trail[Len(trail)])) =>
          ~C17_Applied(trail[Len(trail)])
    /\ (Len(trail) = CONF_N /\ trail[1].init0) =>
          \E i \in 1..CONF_N : C17_Applied(trail[i])

\* a low reading ignored on the cycle that completes the calibration, ignored
\* again on the next valid cycle and accepted on the third
C17_Witness ==
    /\ Len(trail) = CONF_N /\ nvalid = BASELINE_SAMPLES + 2
    /\ ~trail[1].ready0 /\ trail[2].ready0
    /\ C17_Drop(trail[1]) /\ ~C17_Applied(trail[1])
    /\ C17_Drop(trail[2]) /\ ~C17_Applied(trail[2])
    /\ C17_Drop(trail[3]) /\ C17_Applied(trail[3])

\* C18: in the pool-stable sketch, once the filter is initialised, a valid
\* reading below 60% of the filtered distance leaves the filtered distance as
\* it was, and the confirmation ring receives that stale value; so while
\* every reading stays below 60% of it, it never changes, however many
\* readings arrive.
C18_PoolFreezes ==
    [][(nvalid' = nvalid + 1 /\ dist_init
          /\ 100 * dist_cm' < (100 - POOL_DROP_REJECT_FRAC) * dist_f_cm) =>
            /\ dist_f_cm' = dist_f_cm
            /\ hist'[hist_i + 1] = dist_f_cm
            /\ \A i \in 1..CONF_N : i # hist_i + 1 => hist'[i] = hist[i]]_vars

\* a wall at the minimum range has been read on ten valid cycles and more
\* while the filter and the whole ring still hold the far distance, and the
\* classifier is still in SAFE
C18_Witness ==
    /\ sketch = "motor.ino" /\ valid /\ nvalid >= CAL_SAMPLES
    /\ changes = 1 /\ scene = EchoNear /\ dist_cm = MIN_DIST_CM
    /\ dist_f_cm = MAX_DIST_CM
    /\ \A i \in 1..CONF_N : hist[i] = MAX_DIST_CM
    /\ cal_n = CAL_SAMPLES /\ safe_ref_cm = MAX_DIST_CM
    /\ ~in_danger /\ line.danger = 0

\* the stop and warn distances of the air sketch for baseline base
C19_Warn(base) == IF base - MARGIN_WARN_CM < 0 THEN 0 ELSE base - MARGIN_WARN_CM

C19_Stop(base) == IF base - MARGIN_STOP_CM < 0 THEN 0 ELSE base - MARGIN_STOP_CM

\* a cycle of the air sketch after the baseline is ready, without a valid
\* measurement
C19_InvalidStep == sketch = "sketch_feb13a.ino" /\ baseline_ready /\ ~meas_valid'

\* danger_smoothed stays in [0,1], and the ramp is evaluated only between
\* two different distances
C19_RangeAndRamp ==
    /\ danger_smoothed >= 0 /\ danger_smoothed <= AIR_ONE
    /\ line.danger >= 0 /\ line.danger <= 1000
    /\ (baseline_ready /\ meas_valid /\ danger # 0 /\ danger # AIR_ONE) =>
          /\ C19_Stop(D_base) < dist_cm /\ dist_cm < C19_Warn(D_base)
          /\ C19_Warn(D_base) - C19_Stop(D_base) > 0

\* C19: in the air sketch, after the baseline is ready, a cycle with an
\* invalid measurement takes the previous danger_smoothed as its danger and
\* decays it: danger_smoothed never increases on such a cycle and, while it
\* is above 0, it moves toward 0; danger_smoothed is in [0,1] on every cycle
\* and the ramp is never evaluated with a zero denominator.
C19_InvalidDecays ==
    /\ [](C19_RangeAndRamp)
    /\ [][C19_InvalidStep =>
            /\ danger' = danger_smoothed
            /\ danger_smoothed' <= danger_smoothed
            /\ danger_smoothed > 0 => danger_smoothed' < danger_smoothed]_vars

\* the part of C19 that holds: the invalid cycle keeps danger_smoothed as it is
C19_InvalidHolds ==
    /\ [](C19_RangeAndRamp)
    /\ [][C19_InvalidStep =>
            /\ danger' = danger_smoothed
            /\ danger_smoothed' = danger_smoothed
            /\ line'.danger = line.danger]_vars

\* two invalid cycles in a row after danger_smoothed has risen
C19_HeldState ==
    /\ sketch = "sketch_feb13a.ino" /\ baseline_ready /\ ~meas_valid
    /\ echo_us = 0 /\ last_echo = 0 /\ danger_smoothed > AIR_ONE \div 2
    /\ danger = danger_smoothed /\ nvalid = BASELINE_SAMPLES + MaxAirPost

\* buffer b1 differs from buffer b at slot k (0-based) at most
C20_WriteAt(b, b1, k) ==
    /\ DOMAIN b1 = DOMAIN b
    /\ \A i \in DOMAIN b : i # k + 1 => b1[i] = b[i]

C20_State ==
    /\ base_n >= 0 /\ base_n <= BASELINE_SAMPLES
    /\ buf_n >= 0 /\ buf_n <= BASELINE_SAMPLES
    /\ hist_i >= 0 /\ hist_i <= CONF_N - 1
    /\ hist_count >= 0 /\ hist_count <= CONF_N
    /\ DOMAIN base_buf = 1..BASELINE_SAMPLES
    /\ DOMAIN dist_buf = 1..BASELINE_SAMPLES
    /\ DOMAIN hist = 1..CONF_N

C20_Step ==
    \* a cycle that counts a sample writes it at the old count, which is a
    \* slot of the buffer; every other cycle leaves the buffer alone
    /\ IF base_n' # base_n
       THEN /\ base_n' = base_n + 1 /\ base_n <= BASELINE_SAMPLES - 1
            /\ C20_WriteAt(base_buf, base_buf', base_n)
            /\ base_buf'[base_n + 1] = dist_f_cm'
       ELSE base_buf' = base_buf
    /\ IF buf_n' # buf_n
       THEN /\ buf_n' = buf_n + 1 /\ buf_n <= BASELINE_SAMPLES - 1
            /\ C20_WriteAt(dist_buf, dist_buf', buf_n)
            /\ dist_buf'[buf_n + 1] = dist_cm'
       ELSE dist_buf' = dist_buf
    \* the ring is written at its write index only
    /\ C20_WriteAt(hist, hist', hist_i)
    /\ hist_count' < hist_count => (~baseline_ready /\ baseline_ready')

\* C20: for any sequence of valid and invalid cycles, in 1.ino and in the
\* air sketch, the baseline buffer is written only at indices
\* 0..BASELINE_SAMPLES-1 and its count never exceeds BASELINE_SAMPLES; the
\* ring's write index is always in 0..CONF_N-1 and is the only slot written,
\* hist_count is always in 0..CONF_N and does not decrease except on the
\* cycle that completes the calibration.
C20_BoundedBuffers == [](C20_State) /\ [][C20_Step]_vars

\* 1.ino after the calibration, valid and invalid cycles behind it: the
\* buffer is full, the ring is full and its write index has wrapped
C20_Witness ==
    /\ sketch = "1.ino" /\ ~valid
    /\ base_n = BASELINE_SAMPLES /\ nvalid >= BASELINE_SAMPLES + CONF_N
    /\ hist_count = CONF_N /\ hist_i = (nvalid - BASELINE_SAMPLES + 1) % CONF_N
    /\ base_buf[BASELINE_SAMPLES] # hist[hist_i + 1]

\* ---------------------------------------------------------------------
\* C21: when the learned baseline is so small that the entry threshold
\* baseline_cm - MARGIN_CM lies below MIN_DIST_CM (baseline under 80 cm),
\* the condition lasts for the rest of the run and, on every cycle from
\* then on, in_danger is false, no entered event (+1) is emitted and the
\* danger scalar is 0, because the filtered distance stays above the
\* entry threshold whatever echo is measured.
C21_SmallBaseline ==
    baseline_ready /\ baseline_cm - MARGIN_CM < MIN_DIST_CM

C21_Quiet ==
    /\ ~in_danger /\ event # 1 /\ danger = 0
    /\ dist_f_cm > baseline_cm - MARGIN_CM
    /\ \A i \in 1..hist_count : hist[i] > baseline_cm - MARGIN_CM

C21_SmallBaselineNeverDanger ==
    /\ [](C21_SmallBaseline => C21_Quiet)
    /\ [][C21_SmallBaseline => C21_SmallBaseline' /\ baseline_cm' = baseline_cm]_vars

\* a baseline between MIN_DIST_CM and 80 cm has been learned, and since
\* then the confirmation ring has filled with filtered distances that all
\* lie below the baseline, the newest one from an echo at the near limit
C21_Witness ==
    /\ C21_SmallBaseline /\ baseline_cm > MIN_DIST_CM
    /\ hist_count = CONF_N /\ valid /\ dist_cm = MIN_DIST_CM
    /\ \A i \in 1..CONF_N : hist[i] < baseline_cm
    /\ dist_f_cm < baseline_cm - HYST_CM

====
